---- MODULE Spec2Model ----
(***************************************************************************)
(* A model of helper.py: ShowPattern(A, precision=-1, binarize=False).     *)
(*                                                                         *)
(* Floating point values are modelled in fixed point: the integer k stands *)
(* for the float k/One, so One stands for 1.0 and One \div 2 for 0.5.      *)
(* Every value the model uses (halves, their absolute values and sums) is  *)
(* exactly representable as a float, so the arithmetic is exact.           *)
(*                                                                         *)
(* Python indexes vals_all from 0; the sequences below are indexed from 1, *)
(* and i is the 1-based position of the entry the loop handles next.  Row  *)
(* and column indices keep Python's values (0-based).                      *)
(***************************************************************************)
EXTENDS Integers, Sequences, FiniteSets

(* ------------------------------ bounds -------------------------------- *)

\* the largest number of stored entries A.COO() returns
MaxEntries == 2
\* the largest declared height and width
MaxDim == 2

(* ----------------------------- constants ------------------------------ *)

\* the float 1.0 of line 14, in fixed point (units of 0.5)
One == 2

\* the default of the parameter precision (line 6)
DefaultPrecision == 0 - One

\* the values a stored entry can have: -3.0, -0.5, 0.0, 0.5, 2.0
Values == {0 - 3 * One, 0 - (One \div 2), 0, One \div 2, 2 * One}

\* the thresholds a caller passes: -1 (the default), 0.5, 1.0
Precisions == {DefaultPrecision, One \div 2, One}

\* the shapes a matrix declares
Dims == 1..MaxDim

\* the value of a local that has not been assigned yet
Undef == "undef"

\* the exception max raises on an empty sequence (line 31)
ErrEmptyMax == "ValueError: max() arg is an empty sequence"
\* the exceptions scipy raises for a coordinate outside the shape (line 32)
ErrRowIndex == "ValueError: row index exceeds matrix dimensions"
ErrColIndex == "ValueError: column index exceeds matrix dimensions"

(* -------------------------- pure functions ---------------------------- *)

\* Python's abs on a float
Abs(v) == IF v < 0 THEN 0 - v ELSE v

\* lines 12-14 with `vals_all[i] += 1.0` instead of `= 1.0`
TransformAdd(v, prec, bin) ==
    LET a == Abs(v) IN IF bin /\ a > prec THEN a + One ELSE a

\* lines 12-14 with `>=` instead of `>`
TransformGeq(v, prec, bin) ==
    LET a == Abs(v) IN IF bin /\ a >= prec THEN One ELSE a

\* lines 12-14 without the test of binarize
TransformAlways(v, prec, bin) ==
    LET a == Abs(v) IN IF a > prec THEN One ELSE a

\* lines 12-14 testing the loop variable v (the value before abs) instead
\* of vals_all[i]
TransformOnV(v, prec, bin) ==
    LET a == Abs(v) IN IF bin /\ v > prec THEN One ELSE a

\* lines 13-14 without line 12
TransformNoAbs(v, prec, bin) ==
    IF bin /\ v > prec THEN One ELSE v

\* lines 12-14: the value the loop body stores for an entry of value v
Transform(v, prec, bin) ==
    LET a == Abs(v) IN IF bin /\ a > prec THEN One ELSE a

\* the largest element of a non-empty set of numbers
SetMax(S) == CHOOSE m \in S : \A x \in S : x <= m

\* line 31 with min in place of max
MinOf(vals) == LET S == {vals[k] : k \in DOMAIN vals}
               IN CHOOSE m \in S : \A x \in S : m <= x

\* Python's max on a non-empty sequence (line 31)
MaxOf(vals) == SetMax({vals[k] : k \in DOMAIN vals})

RECURSIVE SumAt(_, _, _, _, _, _)
\* the sum of vals[k] over the entries k <= n stored at (r, c)
SumAt(rows, cols, vals, r, c, n) ==
    IF n = 0 THEN 0
    ELSE SumAt(rows, cols, vals, r, c, n - 1)
         + (IF rows[n] = r /\ cols[n] = c THEN vals[n] ELSE 0)

\* the positions that have a stored entry
Stored(rows, cols) == {<<rows[k], cols[k]>> : k \in DOMAIN rows}

\* the check of the coordinates with `>` in place of `>=`: the first index
\* outside the shape is let through
InRangeInclusive(rows, cols, h, w) ==
    \A k \in DOMAIN rows : rows[k] <= h /\ cols[k] <= w

\* line 32, scipy's check of the coordinates against shape=(h, w): no row
\* index reaches h and no column index reaches w
InRange(rows, cols, h, w) ==
    \A k \in DOMAIN rows : rows[k] < h /\ cols[k] < w

\* line 32 if a repeated (row, col) kept the last entry's value
CsrLastWins(rows, cols, vals) ==
    [p \in Stored(rows, cols) |->
        vals[SetMax({k \in DOMAIN rows : <<rows[k], cols[k]>> = p})]]

\* sp.csr_matrix((vals,(rows,cols)), shape): the stored positions, each
\* with the sum of the values given for it (repeated pairs are summed)
CsrMatrix(rows, cols, vals) ==
    [p \in Stored(rows, cols) |->
        SumAt(rows, cols, vals, p[1], p[2], Len(vals))]

\* todense() of a matrix of shape (h, w) filling the wrong shape (w, h)
ToDenseTransposedShape(M, h, w) ==
    [p \in (0..(w - 1)) \X (0..(h - 1)) |->
        IF p \in DOMAIN M THEN M[p] ELSE 0]

\* todense(): an h x w array, 0 where the sparse matrix stores nothing
ToDense(M, h, w) ==
    [p \in (0..(h - 1)) \X (0..(w - 1)) |->
        IF p \in DOMAIN M THEN M[p] ELSE 0]

(* ------------------------------- state -------------------------------- *)

VARIABLES
    A,          \* the argument: [rows, cols, vals, height, width]
    precision,  \* the argument precision
    binarize,   \* the argument binarize
    rows_all, cols_all, vals_all,   \* the arrays A.COO() returned
    i,          \* the entry the loop handles next
    minval, maxval,
    A_all,      \* the csr matrix of line 32
    figure,     \* the figsize of the figure opened, or Undef
    image,      \* what imshow was given, or Undef
    pc,         \* the line ShowPattern is at, "done" or "failed"
    err         \* the exception that ended the call, or Undef

vars == <<A, precision, binarize, rows_all, cols_all, vals_all, i,
          minval, maxval, A_all, figure, image, pc, err>>

\* the positions an entry of a matrix of shape (h, w) is stored at: the
\* positions of the shape, and those whose row or column index is the
\* first one outside it
Positions(h, w) == (0..h) \X (0..w)

\* row-major order, the order in which A.COO() walks the matrix
RowMajorLeq(p, q) == p[1] < q[1] \/ (p[1] = q[1] /\ p[2] <= q[2])

\* the sequences of n positions A.COO() can return: in row-major order,
\* a position possibly repeated
PositionSeqs(h, w, n) ==
    {ps \in [1..n -> Positions(h, w)] :
        \A k \in 1..(n - 1) : RowMajorLeq(ps[k], ps[k + 1])}

\* the matrix of shape (h, w) that stores vs[k] at position ps[k]
Matrix(h, w, ps, vs) ==
    [rows |-> [k \in DOMAIN ps |-> ps[k][1]],
     cols |-> [k \in DOMAIN ps |-> ps[k][2]],
     vals |-> vs, height |-> h, width |-> w]

\* the call ShowPattern(A, precision, binarize) is about to run, A being
\* any matrix of a declared shape with up to MaxEntries stored entries
Init ==
    /\ \E h \in Dims, w \in Dims, n \in 0..MaxEntries :
         \E ps \in PositionSeqs(h, w, n), vs \in [1..n -> Values] :
            A = Matrix(h, w, ps, vs)
    /\ precision \in Precisions
    /\ binarize \in BOOLEAN
    /\ rows_all = <<>> /\ cols_all = <<>> /\ vals_all = <<>>
    /\ i = 1
    /\ minval = Undef /\ maxval = Undef
    /\ A_all = Undef /\ figure = Undef /\ image = Undef
    /\ pc = "coo"
    /\ err = Undef

(* ------------------------------ actions ------------------------------- *)

\* line 7: rows_all,cols_all,vals_all = A.COO()
COO ==
    /\ pc = "coo"
    /\ rows_all' = A.rows /\ cols_all' = A.cols /\ vals_all' = A.vals
    /\ i' = 1
    /\ pc' = "loop"
    /\ UNCHANGED <<A, precision, binarize, minval, maxval, A_all, figure,
                   image, err>>

\* lines 11-14: one pass of the loop body
LoopBody ==
    /\ pc = "loop"
    /\ i <= Len(vals_all)
    /\ vals_all' = [vals_all EXCEPT ![i] = Transform(@, precision, binarize)]
    /\ i' = i + 1
    /\ UNCHANGED <<A, precision, binarize, rows_all, cols_all, minval,
                   maxval, A_all, figure, image, pc, err>>

\* the loop is exhausted; line 30: minval = 0
SetMinval ==
    /\ pc = "loop"
    /\ i > Len(vals_all)
    /\ minval' = 0
    /\ pc' = "max"
    /\ UNCHANGED <<A, precision, binarize, rows_all, cols_all, vals_all, i,
                   maxval, A_all, figure, image, err>>

\* line 31 as max(vals_all, default=0), which does not raise
ComputeMaxDefault ==
    /\ pc = "max"
    /\ maxval' = IF Len(vals_all) = 0 THEN 0 ELSE MaxOf(vals_all)
    /\ pc' = "csr"
    /\ UNCHANGED <<A, precision, binarize, rows_all, cols_all, vals_all, i,
                   minval, A_all, figure, image, err>>

\* line 31: maxval = max(vals_all); max of an empty sequence raises
ComputeMax ==
    /\ pc = "max"
    /\ IF Len(vals_all) = 0
       THEN /\ pc' = "failed"
            /\ err' = ErrEmptyMax
            /\ UNCHANGED maxval
       ELSE /\ maxval' = MaxOf(vals_all)
            /\ pc' = "csr"
            /\ UNCHANGED err
    /\ UNCHANGED <<A, precision, binarize, rows_all, cols_all, vals_all, i,
                   minval, A_all, figure, image>>

\* line 32: A_all = sp.csr_matrix(..., shape=(A.height,A.width)); an index
\* outside the shape raises
BuildDense ==
    /\ pc = "csr"
    /\ IF InRange(rows_all, cols_all, A.height, A.width)
       THEN /\ A_all' = CsrMatrix(rows_all, cols_all, vals_all)
            /\ pc' = "figure"
            /\ UNCHANGED err
       ELSE /\ pc' = "failed"
            /\ err' = IF \E k \in DOMAIN rows_all : rows_all[k] >= A.height
                      THEN ErrRowIndex ELSE ErrColIndex
            /\ UNCHANGED A_all
    /\ UNCHANGED <<A, precision, binarize, rows_all, cols_all, vals_all, i,
                   minval, maxval, figure, image>>

\* line 33: plt.figure(figsize=(4,4*A.width/A.width))
Figure ==
    /\ pc = "figure"
    /\ figure' = <<4, (4 * A.width) \div A.width>>
    /\ pc' = "imshow"
    /\ UNCHANGED <<A, precision, binarize, rows_all, cols_all, vals_all, i,
                   minval, maxval, A_all, image, err>>

\* line 34: plt.imshow(A_all.todense(), ..., vmin=minval, vmax=maxval)
Imshow ==
    /\ pc = "imshow"
    /\ image' = [data |-> ToDense(A_all, A.height, A.width),
                 vmin |-> minval, vmax |-> maxval]
    /\ pc' = "show"
    /\ UNCHANGED <<A, precision, binarize, rows_all, cols_all, vals_all, i,
                   minval, maxval, A_all, figure, err>>

\* line 35: plt.show()
Show ==
    /\ pc = "show"
    /\ pc' = "done"
    /\ UNCHANGED <<A, precision, binarize, rows_all, cols_all, vals_all, i,
                   minval, maxval, A_all, figure, image, err>>

Next ==
    \/ COO
    \/ LoopBody
    \/ SetMinval
    \/ ComputeMax
    \/ BuildDense
    \/ Figure
    \/ Imshow
    \/ Show

Spec == Init /\ [][Next]_vars

(* --------------------------- the properties --------------------------- *)

\* the entries the loop has already handled
Handled == IF pc = "coo" THEN {} ELSE 1..(i - 1)

\* the loop has handled every entry
LoopDone == pc \notin {"coo", "loop"} \/ (pc = "loop" /\ i > Len(vals_all))

\* line 31 has assigned maxval
MaxComputed == pc \in {"csr", "figure", "imshow", "show", "done"}
               \/ (pc = "failed" /\ Len(vals_all) > 0)

\* line 34 has handed the dense array to imshow
Displayed == pc \in {"show", "done"}

\* the entries of the matrix stored at position p
EntriesAt(p) == {k \in DOMAIN rows_all : rows_all[k] = p[1] /\ cols_all[k] = p[2]}

RECURSIVE SumOver(_)
\* the sum of the transformed values of a set of entries
SumOver(S) == IF S = {} THEN 0
              ELSE LET k == CHOOSE x \in S : TRUE
                   IN vals_all[k] + SumOver(S \ {k})

\* the call has ended: no step of ShowPattern is left
Ended == ~ENABLED Next

\* C1: with binarize=false every entry the loop has handled holds the
\* absolute value of the entry's original value, whatever the precision.
C1_AbsWhenNotBinarized ==
    ~binarize =>
        \A k \in Handled : vals_all[k] = (IF A.vals[k] < 0 THEN 0 - A.vals[k]
                                          ELSE A.vals[k])

\* C1 witness: the scenario [(0,0,-3.0),(1,1,2.0)], 2 x 2, binarize=false,
\* with a precision below the magnitudes, has shown [[3.0,0],[0,2.0]] with
\* maxval 3.0.
C1_Witness ==
    /\ pc = "done" /\ ~binarize /\ precision = One \div 2
    /\ A.height = 2 /\ A.width = 2
    /\ A.rows = <<0, 1>> /\ A.cols = <<0, 1>>
    /\ A.vals = <<0 - 3 * One, 2 * One>>
    /\ vals_all = <<3 * One, 2 * One>>
    /\ image.data = [p \in (0..1) \X (0..1) |->
                        IF p = <<0, 0>> THEN 3 * One
                        ELSE IF p = <<1, 1>> THEN 2 * One ELSE 0]
    /\ maxval = 3 * One

\* C2: with binarize=true every entry the loop has handled holds 1.0 if
\* the magnitude of its original value is strictly above precision, and
\* that magnitude otherwise (so a magnitude equal to precision is kept).
C2_BinarizeThreshold ==
    binarize =>
        \A k \in Handled :
            LET a == IF A.vals[k] < 0 THEN 0 - A.vals[k] ELSE A.vals[k]
            IN  vals_all[k] = (IF a > precision THEN One ELSE a)

\* C2 witness: a binarized call has ended with one entry whose magnitude
\* equals the precision 0.5 and is kept, and one above it snapped to 1.0.
C2_Witness ==
    /\ pc = "done" /\ binarize /\ precision = One \div 2
    /\ Len(vals_all) = 2
    /\ A.vals[1] = 0 - (One \div 2) /\ vals_all[1] = One \div 2
    /\ A.vals[2] = 2 * One /\ vals_all[2] = One

\* C3: once maxval is assigned, the matrix has an entry, every entry holds
\* its transformed value, maxval is the largest of them, minval is 0 and
\* maxval >= minval.
C3_MaxvalIsMaximum ==
    MaxComputed =>
        /\ Len(vals_all) > 0
        /\ \A k \in DOMAIN vals_all :
              /\ vals_all[k] = Transform(A.vals[k], precision, binarize)
              /\ vals_all[k] <= maxval
        /\ \E k \in DOMAIN vals_all : vals_all[k] = maxval
        /\ minval = 0
        /\ maxval >= minval

\* C3 witness: a call on two entries whose transformed values differ has
\* ended with maxval the first of them, which binarization changed.
C3_Witness ==
    /\ pc = "done" /\ binarize /\ precision = One \div 2
    /\ Len(vals_all) = 2
    /\ A.vals[1] = 0 - 3 * One /\ vals_all[1] = One
    /\ vals_all[2] = One \div 2
    /\ maxval = One /\ minval = 0

\* C4 as stated: the dense array holds, at the position of each stored
\* entry, that entry's transformed value, repeated positions included.
C4_Original ==
    Displayed =>
        \A k \in DOMAIN vals_all :
            image.data[<<rows_all[k], cols_all[k]>>] = vals_all[k]

\* C4 amended: the dense array holds, at the position of each stored entry,
\* the sum of the transformed values of all the entries stored at that
\* position (so the entry's own value where the position is not repeated).
C4_SumAtPosition ==
    Displayed =>
        \A k \in DOMAIN vals_all :
            LET p == <<rows_all[k], cols_all[k]>>
            IN  /\ p \in DOMAIN image.data
                /\ image.data[p] = SumOver(EntriesAt(p))
                /\ (Cardinality(EntriesAt(p)) = 1 => image.data[p] = vals_all[k])

\* C4 witness: a matrix with a repeated position and one that is not has
\* been shown, the repeated one holding more than either of its entries.
C4_Witness ==
    /\ pc = "done" /\ A.height = 2 /\ A.width = 2
    /\ A.rows = <<0, 0>> /\ A.cols = <<1, 1>>
    /\ vals_all = <<3 * One, One \div 2>>
    /\ image.data[<<0, 1>>] = 3 * One + (One \div 2)

\* C5: the dense array shown has exactly the index set
\* {0..height-1} x {0..width-1}, and holds 0 wherever no entry is stored.
C5_ShapeAndZeros ==
    Displayed =>
        /\ DOMAIN image.data = (0..(A.height - 1)) \X (0..(A.width - 1))
        /\ \A p \in DOMAIN image.data :
              (\A k \in DOMAIN rows_all : <<rows_all[k], cols_all[k]>> # p)
                  => image.data[p] = 0

\* C5 witness: a matrix of height 2 and width 1 whose one entry lies in
\* row 0 has been shown: row 1 is in the array and holds 0.
C5_Witness ==
    /\ pc = "done" /\ A.height = 2 /\ A.width = 1
    /\ A.rows = <<0>> /\ A.cols = <<0>> /\ A.vals = <<0 - 3 * One>>
    /\ image.data[<<0, 0>>] = 3 * One
    /\ image.data[<<1, 0>>] = 0
    /\ <<0, 1>> \notin DOMAIN image.data

\* C6: on a matrix without entries the call never gets past line 31: no
\* dense array is built, no figure opened, no image shown; it can end only
\* in the failure max raised, and after that takes no further step.
C6_EmptyFailsAtMax ==
    Len(A.vals) = 0 =>
        /\ pc \in {"coo", "loop", "max", "failed"}
        /\ A_all = Undef /\ figure = Undef /\ image = Undef
        /\ maxval = Undef
        /\ (pc = "failed" => err = ErrEmptyMax)
        /\ (Ended <=> pc = "failed")

\* C6 witness: the call on an empty matrix has failed in max.
C6_Witness ==
    /\ Len(A.vals) = 0 /\ pc = "failed" /\ err = ErrEmptyMax
    /\ minval = 0 /\ figure = Undef

\* C7: on a non-empty matrix with a row index >= height or a column index
\* >= width the call never gets past line 32: no dense array, no figure, no
\* image; it can end only in the out-of-bounds failure, raised after the
\* loop has handled every entry and maxval has been computed.
C7_OutOfRangeFailsAtBuild ==
    (/\ Len(A.vals) > 0
     /\ \E k \in DOMAIN A.rows : A.rows[k] >= A.height \/ A.cols[k] >= A.width)
    =>
        /\ pc \in {"coo", "loop", "max", "csr", "failed"}
        /\ A_all = Undef /\ figure = Undef /\ image = Undef
        /\ (pc = "failed" =>
              /\ err \in {ErrRowIndex, ErrColIndex}
              /\ i = Len(vals_all) + 1
              /\ \A k \in DOMAIN vals_all :
                    /\ vals_all[k] = Transform(A.vals[k], precision, binarize)
                    /\ vals_all[k] <= maxval
              /\ \E k \in DOMAIN vals_all : vals_all[k] = maxval)
        /\ (Ended <=> pc = "failed")

\* C7 witness: the call on a matrix of height 1 with an entry in row 1 has
\* failed in the construction of the dense array, maxval computed.
C7_Witness ==
    /\ pc = "failed" /\ err = ErrRowIndex
    /\ A.height = 1 /\ A.rows = <<0, 1>> /\ A.cols = <<0, 0>>
    /\ A.vals = <<One \div 2, 0 - 3 * One>>
    /\ maxval = 3 * One /\ ~binarize

\* C8: with the default precision -1, binarize=true turns every handled
\* entry, a stored 0 included, into 1.0 and maxval is 1.0; binarize=false
\* leaves the plain absolute values.
C8_DefaultPrecision ==
    precision = 0 - One =>
        /\ \A k \in Handled :
              vals_all[k] = (IF binarize THEN One
                             ELSE IF A.vals[k] < 0 THEN 0 - A.vals[k]
                             ELSE A.vals[k])
        /\ (MaxComputed /\ binarize => maxval = One)

\* C8 witness: a binarized call with the default precision has ended with
\* a stored 0 and a negative value both shown as 1.0, and maxval 1.0.
C8_Witness ==
    /\ pc = "done" /\ binarize /\ precision = DefaultPrecision
    /\ A.vals = <<0, 0 - 3 * One>> /\ vals_all = <<One, One>>
    /\ maxval = One

\* C9 as stated: every cell of the array shown lies in [minval, maxval],
\* repeated positions included.
C9_Original ==
    Displayed =>
        /\ image.vmin = 0
        /\ \A p \in DOMAIN image.data :
              image.vmin <= image.data[p] /\ image.data[p] <= image.vmax

\* C9 amended: the colour range is [0, maxval] and every cell c of the
\* array shown satisfies 0 <= c <= n * maxval, n being the number of
\* entries stored at the cell; so c <= maxval where at most one entry is
\* stored, while a repeated position holds a sum that may exceed maxval.
C9_CellsWithinMultiple ==
    Displayed =>
        /\ image.vmin = 0 /\ image.vmax = maxval
        /\ \A p \in DOMAIN image.data :
              /\ image.vmin <= image.data[p]
              /\ image.data[p] <= Cardinality(EntriesAt(p)) * image.vmax

\* C9 witness: a matrix with a repeated position has been shown, the cell
\* holding twice maxval, and a cell with one entry holding maxval.
C9_Witness ==
    /\ pc = "done"
    /\ A.rows = <<0, 0>> /\ A.cols = <<0, 0>>
    /\ vals_all = <<2 * One, 2 * One>>
    /\ image.vmax = 2 * One
    /\ image.data[<<0, 0>>] = 4 * One

\* C10: transforming a handled entry again gives the same value, for every
\* precision, and once the loop is over transforming the whole list again
\* gives the same list; and a pass of the loop leaves the row indices, the
\* column indices, the number of entries and the declared height and width
\* as they were.
C10_Idempotent ==
    /\ [](pc # "coo" =>
            /\ \A k \in Handled :
                  Transform(vals_all[k], precision, binarize) = vals_all[k]
            /\ (LoopDone =>
                  [k \in DOMAIN vals_all |->
                      Transform(vals_all[k], precision, binarize)] = vals_all)
            /\ rows_all = A.rows /\ cols_all = A.cols
            /\ Len(vals_all) = Len(A.vals))
    /\ [][pc = "loop" =>
            /\ rows_all' = rows_all /\ cols_all' = cols_all
            /\ Len(vals_all') = Len(vals_all)
            /\ A'.height = A.height /\ A'.width = A.width]_vars

\* C10 witness: a binarized call with precision 1.0 has ended with a value
\* above the threshold snapped to 1.0, which is not above the threshold.
C10_Witness ==
    /\ pc = "done" /\ binarize /\ precision = One
    /\ A.vals = <<0 - 3 * One, One \div 2>>
    /\ vals_all = <<One, One \div 2>>

====
